---- MODULE Spec2Model ----
(***************************************************************************)
(* Model of the Reddit persona generator.                                  *)
(*   console variant   : src/persona_spez.py  (class RedditPersonaGenerator *)
(*                       and its __main__ loop)                             *)
(*   dashboard variant : src/reddit_persona.py (module-level functions)     *)
(*                                                                         *)
(* A Python str is a sequence of one-character strings; a code point that   *)
(* is not ASCII is written by its name ("U+1F602").  A Python dict is a     *)
(* function on its keys, and a dict whose iteration order the code uses     *)
(* (the subreddit tally, sorted with a stable sort) is a sequence of        *)
(* [key, value] records in insertion order.  A float quotient a / b is the  *)
(* record [num |-> a, den |-> b].                                           *)
(*                                                                         *)
(* Functions of the dashboard variant that share a name with the console    *)
(* variant carry the prefix dash_.                                          *)
(***************************************************************************)
EXTENDS Integers, Sequences, FiniteSets, TLC

VARIABLES
    \* one run of generate_persona, then format_output
    variant,     \* "console" or "dashboard"
    username,    \* the argument of generate_persona
    source,      \* what the content source holds for the user
    pc,          \* position in generate_persona
    comments,    \* local: list(user.comments.new(limit=100))
    posts,       \* local: list(user.submissions.new(limit=100))
    persona,     \* local: the dict under construction
    k,           \* local: number of comments the loop has processed
    result,      \* the value generate_persona returned
    failure,     \* history: the exception the content source raised, if any
    fetches,     \* history: number of calls of each listing
    output,      \* format_output(result)
    \* one application of the text functions
    text, cleaned, interests, traits,
    \* one application of analyze_writing_style
    texts, style,
    \* one tally of communities and its rendering
    subs, tally, top_subs,
    \* the console main loop and the personas/ directory
    running, clock, files, saved

runVars == <<variant, username, source, pc, comments, posts, persona, k, result, failure, fetches, output>>
textVars == <<text, cleaned, interests, traits>>
styleVars == <<texts, style>>
tallyVars == <<subs, tally, top_subs>>
saveVars == <<running, clock, files, saved>>
vars == <<runVars, textVars, styleVars, tallyVars, saveVars>>

-----------------------------------------------------------------------------
(* Bounds of the model *)

\* longest string given to the normalizer
MaxLen == 3
\* most fragments concatenated into a text given to the classifiers
MaxFrags == 2
\* most texts in a batch given to analyze_writing_style
MaxBatch == 6
\* most comments in a tally
MaxTally == 6
\* most comments / posts the content source holds for the user of a run
MaxComments == 2
MaxPosts == 1
\* last instant of the clock, in ticks
MaxClock == 3
\* most iterations of the console main loop
MaxRuns == 3

-----------------------------------------------------------------------------
(* Sequences *)

Range(s) == {s[i] : i \in DOMAIN s}

RECURSIVE Flatten(_)
Flatten(ss) == IF ss = <<>> THEN <<>> ELSE Head(ss) \o Flatten(Tail(ss))

RECURSIVE SumSeq(_)
SumSeq(ns) == IF ns = <<>> THEN 0 ELSE Head(ns) + SumSeq(Tail(ns))

\* sequences over S of length at most n
SeqUpTo(S, n) == UNION {[1..m -> S] : m \in 0..n}

\* sequences over S of length at most n that name no element twice
InjSeqUpTo(S, n) == {s \in SeqUpTo(S, n) : \A i, j \in DOMAIN s : i # j => s[i] # s[j]}

\* Python's s[:n]
Take(s, n) == SubSeq(s, 1, IF Len(s) < n THEN Len(s) ELSE n)

\* Python's `needle in haystack` for two str
Contains(haystack, needle) ==
    \E i \in 0..(Len(haystack) - Len(needle)) :
        \A j \in 1..Len(needle) : haystack[i + j] = needle[j]

-----------------------------------------------------------------------------
(* Characters: str.lower(), and the classes \w and \s of the re module *)

UpperCase == <<"A","B","C","D","E","F","G","H","I","J","K","L","M","N","O","P","Q","R","S","T","U","V","W","X","Y","Z">>
LowerCase == <<"a","b","c","d","e","f","g","h","i","j","k","l","m","n","o","p","q","r","s","t","u","v","w","x","y","z">>
Digits == <<"0","1","2","3","4","5","6","7","8","9">>

UpperSet == Range(UpperCase)
AlnumSet == Range(UpperCase) \cup Range(LowerCase) \cup Range(Digits)

IsUpper(c) == c \in UpperSet
IsAlnum(c) == c \in AlnumSet
\* \s
IsSpace(c) == c \in {" ", "\n", "\t"}

lower_char(c) ==
    IF IsUpper(c)
    THEN LowerCase[CHOOSE i \in DOMAIN UpperCase : UpperCase[i] = c]
    ELSE c

\* str.lower()
lower(s) == [i \in DOMAIN s |-> lower_char(s[i])]

\* \w: a letter, a digit or the underscore
IsWordChar(c) == IsAlnum(c) \/ c = "_"

\* re.sub(r'[^\w\s]', '', text.lower())
_clean_text(s) == SelectSeq(lower(s), LAMBDA c : IsWordChar(c) \/ IsSpace(c))

\* the dashboard's copy of the normalizer
clean_text(s) == SelectSeq(lower(s), LAMBDA c : IsWordChar(c) \/ IsSpace(c))

\* where the tokens of str.split() start: a character that is not whitespace,
\* first of the string or behind whitespace
token_starts(s) == {i \in DOMAIN s : ~IsSpace(s[i]) /\ (i = 1 \/ IsSpace(s[i - 1]))}

\* len(t.split())
word_count(s) == Cardinality(token_starts(s))

-----------------------------------------------------------------------------
(* analyze_writing_style, console variant *)

\* "😂", "😊", "❤️" (the last one is two code points)
emoji_list == << <<"U+1F602">>, <<"U+1F60A">>, <<"U+2764", "U+FE0F">> >>
formal_words == << <<"h","o","w","e","v","e","r">>, <<"t","h","e","r","e","f","o","r","e">>, <<"m","o","r","e","o","v","e","r">> >>

DetailedWords == 75
BalancedWords == 40
CasualEmoji == 3
FormalScore == 5

\* any(x in t for x in xs)
AnyIn(xs, t) == \E i \in DOMAIN xs : Contains(t, xs[i])

\* a / b > n for a float quotient of two small integers
Above(q, n) == q.num > n * q.den

style_sentinel ==
    ("Description" :> "No text available") @@ ("Average Word Count" :> 0) @@
    ("Emoji Usage" :> 0) @@ ("Formality Score" :> 0) @@ ("Readability" :> "N/A")

\* a faulty variant of describe_style: the emoji rule is tried before the word-count rules
describe_style_emoji_first(avg, emoji, formality) ==
    IF emoji > CasualEmoji THEN "Casual and expressive"
    ELSE IF Above(avg, DetailedWords) THEN "Detailed and analytical"
    ELSE IF Above(avg, BalancedWords) THEN "Balanced and thoughtful"
    ELSE IF formality > FormalScore THEN "Formal and structured"
    ELSE "Straightforward and concise"

\* the if / elif chain that sets style["Description"]
describe_style(avg, emoji, formality) ==
    IF Above(avg, DetailedWords) THEN "Detailed and analytical"
    ELSE IF Above(avg, BalancedWords) THEN "Balanced and thoughtful"
    ELSE IF emoji > CasualEmoji THEN "Casual and expressive"
    ELSE IF formality > FormalScore THEN "Formal and structured"
    ELSE "Straightforward and concise"

analyze_writing_style(ts) ==
    IF ts = <<>>
    THEN style_sentinel
    ELSE LET total_words == SumSeq([i \in DOMAIN ts |-> word_count(ts[i])])
             avg_word_count == [num |-> total_words, den |-> Len(ts)]
             emoji == Cardinality({i \in DOMAIN ts : AnyIn(emoji_list, ts[i])})
             formality == Cardinality({i \in DOMAIN ts : AnyIn(formal_words, _clean_text(ts[i]))})
         IN  ("Average Word Count" :> avg_word_count) @@
             ("Emoji Usage" :> emoji) @@
             ("Formality Score" :> formality) @@
             ("Question Frequency" :> Cardinality({i \in DOMAIN ts : Contains(ts[i], <<"?">>)})) @@
             ("Exclamation Frequency" :> Cardinality({i \in DOMAIN ts : Contains(ts[i], <<"!">>)})) @@
             ("Description" :> describe_style(avg_word_count, emoji, formality))

-----------------------------------------------------------------------------
(* analyze_writing_style, dashboard variant *)

dash_formal_words == << <<"h","o","w","e","v","e","r">>, <<"t","h","e","r","e","f","o","r","e">> >>

dash_analyze_writing_style(ts) ==
    IF ts = <<>>
    THEN ("Description" :> "No text available")
    ELSE LET avg_word_count ==
                 [num |-> SumSeq([i \in DOMAIN ts |-> word_count(ts[i])]), den |-> Len(ts)]
             emoji_use == Cardinality({i \in DOMAIN ts : AnyIn(emoji_list, ts[i])})
             formality == Cardinality({i \in DOMAIN ts : AnyIn(dash_formal_words, clean_text(ts[i]))})
         IN  ("avg_word_count" :> avg_word_count) @@
             ("emoji_use" :> emoji_use) @@
             ("formality" :> formality) @@
             ("style" :> IF Above(avg_word_count, DetailedWords) THEN "Detailed/analytical"
                         ELSE IF emoji_use > CasualEmoji THEN "Casual/expressive"
                         ELSE "Straightforward")

-----------------------------------------------------------------------------
(* detect_interests and detect_personality_traits *)

interest_keywords ==
    << [category |-> "Technology",
        keywords |-> << <<"p","y","t","h","o","n">>, <<"p","r","o","g","r","a","m","m","i","n","g">>, <<"j","a","v","a","s","c","r","i","p","t">>, <<"l","i","n","u","x">>, <<"g","i","t","h","u","b">> >>],
       [category |-> "Gaming",
        keywords |-> << <<"g","a","m","e">>, <<"g","a","m","i","n","g">>, <<"p","l","a","y","s","t","a","t","i","o","n">>, <<"x","b","o","x">>, <<"n","i","n","t","e","n","d","o">> >>],
       [category |-> "Sports",
        keywords |-> << <<"f","o","o","t","b","a","l","l">>, <<"b","a","s","k","e","t","b","a","l","l">>, <<"s","o","c","c","e","r">>, <<"n","b","a">>, <<"n","f","l">> >>],
       [category |-> "Movies/TV",
        keywords |-> << <<"m","o","v","i","e">>, <<"n","e","t","f","l","i","x">>, <<"m","a","r","v","e","l">>, <<"s","t","a","r"," ","w","a","r","s">>, <<"t","v"," ","s","h","o","w">> >>],
       [category |-> "Science",
        keywords |-> << <<"s","p","a","c","e">>, <<"p","h","y","s","i","c","s">>, <<"b","i","o","l","o","g","y">>, <<"r","e","s","e","a","r","c","h">>, <<"a","s","t","r","o","n","o","m","y">> >>] >>

\* the for loop over interest_keywords.items(), from its i-th entry on
RECURSIVE interests_loop(_, _, _)
interests_loop(t, i, found) ==
    IF i > Len(interest_keywords)
    THEN found
    ELSE interests_loop(t, i + 1,
             IF AnyIn(interest_keywords[i].keywords, t)
             THEN Append(found, interest_keywords[i].category)
             ELSE found)

\* a faulty variant of detect_interests: the keywords are looked up in the raw text
detect_interests_raw(s) == interests_loop(s, 1, <<>>)

detect_interests(s) == interests_loop(_clean_text(s), 1, <<>>)

trait_keywords ==
    << [trait |-> "Opinionated", keywords |-> << <<"i"," ","t","h","i","n","k">>, <<"i","n"," ","m","y"," ","o","p","i","n","i","o","n">>, <<"i"," ","b","e","l","i","e","v","e">> >>],
       [trait |-> "Humorous", keywords |-> << <<"l","o","l">>, <<"h","a","h","a">>, <<"f","u","n","n","y">>, <<"j","o","k","e">> >>],
       [trait |-> "Helpful", keywords |-> << <<"h","e","l","p">>, <<"a","d","v","i","c","e">>, <<"s","u","g","g","e","s","t","i","o","n">> >>],
       [trait |-> "Curious", keywords |-> << <<"w","h","y">>, <<"h","o","w">>, <<"e","x","p","l","a","i","n">> >>] >>

\* one `if any(w in text for w in [...]): traits.append(...)` statement
trait_if(t, i, found) ==
    IF AnyIn(trait_keywords[i].keywords, t)
    THEN Append(found, trait_keywords[i].trait)
    ELSE found

\* a faulty variant of detect_personality_traits: the keywords are looked up in
\* the raw text
detect_personality_traits_raw(s) ==
    trait_if(s, 4, trait_if(s, 3, trait_if(s, 2, trait_if(s, 1, <<>>))))

detect_personality_traits(s) ==
    LET t == _clean_text(s)
    IN  trait_if(t, 4, trait_if(t, 3, trait_if(t, 2, trait_if(t, 1, <<>>))))

dash_categories ==
    << [category |-> "Technology", keywords |-> << <<"p","y","t","h","o","n">>, <<"p","r","o","g","r","a","m","m","i","n","g">>, <<"j","a","v","a","s","c","r","i","p","t">> >>],
       [category |-> "Gaming", keywords |-> << <<"g","a","m","e">>, <<"g","a","m","i","n","g">>, <<"p","l","a","y","s","t","a","t","i","o","n">> >>],
       [category |-> "Sports", keywords |-> << <<"f","o","o","t","b","a","l","l">>, <<"b","a","s","k","e","t","b","a","l","l">>, <<"s","o","c","c","e","r">> >>] >>

\* [cat for cat, terms in categories.items() if any(term in text for term in terms)]
dash_detect_interests(s) ==
    LET t == clean_text(s)
        hit == SelectSeq(dash_categories, LAMBDA e : AnyIn(e.keywords, t))
    IN  [i \in DOMAIN hit |-> hit[i].category]

-----------------------------------------------------------------------------
(* Dicts whose insertion order the code relies on: sequences of [key, value] *)

Keys(d) == {d[i].key : i \in DOMAIN d}

HasKey(d, key) == \E i \in DOMAIN d : d[i].key = key

Lookup(d, key) == d[CHOOSE i \in DOMAIN d : d[i].key = key].value

\* persona["Preferred Subreddits"][subreddit] += 1 on a defaultdict(int)
tally_add(d, sub) ==
    IF HasKey(d, sub)
    THEN [i \in DOMAIN d |-> IF d[i].key = sub THEN [d[i] EXCEPT !.value = @ + 1] ELSE d[i]]
    ELSE Append(d, [key |-> sub, value |-> 1])

RECURSIVE tally_all(_, _)
tally_all(d, ss) == IF ss = <<>> THEN d ELSE tally_all(tally_add(d, Head(ss)), Tail(ss))

\* persona[...][label].append(permalink) on a defaultdict(list)
cite(d, label, permalink) ==
    IF HasKey(d, label)
    THEN [i \in DOMAIN d |->
             IF d[i].key = label THEN [d[i] EXCEPT !.value = Append(@, permalink)] ELSE d[i]]
    ELSE Append(d, [key |-> label, value |-> <<permalink>>])

\* for label in labels: persona[...][label].append(permalink)
RECURSIVE cite_all(_, _, _)
cite_all(d, labels, permalink) ==
    IF labels = <<>> THEN d
    ELSE cite_all(cite(d, Head(labels), permalink), Tail(labels), permalink)

\* where a stable descending sort by count puts e in a list already sorted:
\* behind every entry whose count is at least e's
RECURSIVE insert_by_count(_, _)
insert_by_count(sorted, e) ==
    IF sorted = <<>> THEN <<e>>
    ELSE IF Head(sorted).value >= e.value
         THEN <<Head(sorted)>> \o insert_by_count(Tail(sorted), e)
         ELSE <<e>> \o sorted

RECURSIVE sort_from(_, _)
sort_from(sorted, items) ==
    IF items = <<>> THEN sorted
    ELSE sort_from(insert_by_count(sorted, Head(items)), Tail(items))

\* sorted(d.items(), key=lambda x: x[1], reverse=True): stable, ties stay in
\* insertion order
sorted_by_count(d) == sort_from(<<>>, d)

TopSubreddits == 5

\* a faulty variant of top_subreddits: the [:5] slice is missing
top_subreddits_unsliced(d) == sorted_by_count(d)

\* sorted(persona["Preferred Subreddits"].items(), ...)[:5]
top_subreddits(d) == Take(sorted_by_count(d), TopSubreddits)

-----------------------------------------------------------------------------
(* generate_persona, console variant: the dict literal and the loop body *)

FetchLimit == 100
CitationSample == 3

Min(S) == CHOOSE x \in S : \A y \in S : x <= y

\* str(datetime.fromtimestamp(t)), kept symbolic
datetime_str(t) == [datetime |-> t]

\* a faulty variant of all_texts_of: the post titles are left out
all_texts_comments_only(cs, ps) == [i \in DOMAIN cs |-> cs[i].body]

\* [c.body for c in comments] + [p.title for p in posts]
all_texts_of(cs, ps) == [i \in DOMAIN cs |-> cs[i].body] \o [i \in DOMAIN ps |-> ps[i].title]

\* persona = {...}
persona_literal(name, user, cs, ps) ==
    ("Username" :> <<"u/", name>>) @@
    ("Account Age" :> datetime_str(user.created_utc)) @@
    ("Writing Style" :> analyze_writing_style(all_texts_of(cs, ps))) @@
    ("Preferred Subreddits" :> <<>>) @@
    ("Interests & Hobbies" :> <<>>) @@
    ("Personality Traits" :> <<>>) @@
    ("Activity Summary" :>
        (("Total Comments" :> Len(cs)) @@
         ("Total Posts" :> Len(ps)) @@
         ("Comment Karma" :> user.comment_karma) @@
         ("Post Karma" :> user.link_karma) @@
         ("First Seen" :> IF cs # <<>>
                          THEN datetime_str(Min({cs[i].created_utc : i \in DOMAIN cs}))
                          ELSE "N/A"))) @@
    ("Citations" :>
        (("Comments" :> [i \in DOMAIN Take(cs, CitationSample) |-> cs[i].permalink]) @@
         ("Posts" :> [i \in DOMAIN Take(ps, CitationSample) |-> ps[i].permalink])))

\* a faulty variant of persona_step: every comment is cited for every label it
\* or an earlier comment matched
persona_step_cite_known(p, comment) ==
    LET tallied == [p EXCEPT !["Preferred Subreddits"] = tally_add(@, comment.subreddit)]
        known(d) == [i \in DOMAIN d |-> d[i].key]
    IN  [tallied EXCEPT
            !["Interests & Hobbies"] =
                cite_all(cite_all(@, detect_interests(comment.body), comment.permalink),
                         known(@), comment.permalink),
            !["Personality Traits"] =
                cite_all(@, detect_personality_traits(comment.body), comment.permalink)]

\* the body of `for comment in comments:`
persona_step(p, comment) ==
    LET tallied == [p EXCEPT !["Preferred Subreddits"] = tally_add(@, comment.subreddit)]
    IN  [tallied EXCEPT
            !["Interests & Hobbies"] =
                cite_all(@, detect_interests(comment.body), comment.permalink),
            !["Personality Traits"] =
                cite_all(@, detect_personality_traits(comment.body), comment.permalink)]

RECURSIVE persona_loop(_, _)
persona_loop(p, cs) == IF cs = <<>> THEN p ELSE persona_loop(persona_step(p, Head(cs)), Tail(cs))

no_activity == [error |-> "No public activity found"]

\* a faulty variant of no_public_activity: `comments is None and posts is None`,
\* which no list satisfies
no_public_activity_is_none(cs, ps) == FALSE

\* not comments and not posts
no_public_activity(cs, ps) == cs = <<>> /\ ps = <<>>

-----------------------------------------------------------------------------
(* generate_persona, dashboard variant: the dict it returns *)

DashTopSubreddits == 10
DashSampleChars == 200

i_think == <<"i"," ","t","h","i","n","k">>

dash_persona(name, user, cs, ps) ==
    LET all_texts == all_texts_of(cs, ps)
        subreddits == [i \in DOMAIN cs |-> cs[i].subreddit] \o
                      [i \in DOMAIN ps |-> ps[i].subreddit]
    IN  ("username" :> <<"u/", name>>) @@
        \* strftime("%Y-%m-%d"): the day of the timestamp
        ("account_age" :> [date |-> user.created_utc \div 86400]) @@
        ("post_karma" :> user.link_karma) @@
        ("comment_karma" :> user.comment_karma) @@
        ("writing_style" :> dash_analyze_writing_style(all_texts)) @@
        \* list(set(...)): the order of the list is not determined
        ("interests" :> UNION {Range(dash_detect_interests(all_texts[i])) : i \in DOMAIN all_texts}) @@
        ("traits" :> IF \E i \in DOMAIN all_texts : Contains(clean_text(all_texts[i]), i_think)
                     THEN <<"Opinionated">> ELSE <<>>) @@
        \* dict(Counter(subreddits).most_common(10))
        ("subreddit_activity" :>
            Take(sorted_by_count(tally_all(<<>>, subreddits)), DashTopSubreddits)) @@
        \* datetime.fromtimestamp(c.created_utc).hour, in a zone without offset
        ("activity_hours" :> [i \in DOMAIN cs |-> (cs[i].created_utc \div 3600) % 24]) @@
        ("sample_comments" :>
            [i \in DOMAIN Take(cs, CitationSample) |->
                Take(cs[i].body, DashSampleChars) \o <<".", ".", ".">>]) @@
        ("sample_posts" :> [i \in DOMAIN Take(ps, CitationSample) |-> ps[i].title])

-----------------------------------------------------------------------------
(* format_output and save_to_file *)

\* the keys of persona["Writing Style"] that format_output subscripts
style_fields_read ==
    {"Description", "Average Word Count", "Emoji Usage", "Question Frequency",
     "Exclamation Frequency"}

\* the report, one entry per section; a subscript of a missing key raises KeyError
format_output(p) ==
    IF "error" \in DOMAIN p
    THEN [error_line |-> <<"Error generating persona: ", p.error>>]
    ELSE LET ws == p["Writing Style"]
             activity == p["Activity Summary"]
             cited(d) == [i \in DOMAIN d |-> <<d[i].key, Len(d[i].value)>>]
         IN  IF ~(style_fields_read \subseteq DOMAIN ws)
             THEN [raised |-> "KeyError"]
             ELSE [title |-> <<p["Username"], p["Account Age"]>>,
                   writing_style |->
                       <<ws["Description"], [fmt |-> ".1f", value |-> ws["Average Word Count"]],
                         ws["Emoji Usage"], ws["Question Frequency"],
                         ws["Exclamation Frequency"]>>,
                   subreddit_activity |->
                       [i \in DOMAIN top_subreddits(p["Preferred Subreddits"]) |->
                           <<top_subreddits(p["Preferred Subreddits"])[i].key,
                             top_subreddits(p["Preferred Subreddits"])[i].value>>],
                   interests |-> cited(p["Interests & Hobbies"]),
                   traits |-> cited(p["Personality Traits"]),
                   activity |->
                       <<activity["Total Comments"], activity["Comment Karma"],
                         activity["Total Posts"], activity["Post Karma"],
                         activity["First Seen"]>>,
                   example_content |->
                       <<Take(p["Citations"]["Comments"], CitationSample),
                         Take(p["Citations"]["Posts"], CitationSample)>>]

\* ticks of the clock in one second: datetime.now() is finer than "%S"
TicksPerSecond == 2

\* datetime.now().strftime("%Y%m%d_%H%M%S"): the second the instant lies in
timestamp(now) == now \div TicksPerSecond

\* f"personas/{username}_persona_{timestamp}.txt"
filename_of(name, now) == <<"personas/", name, "_persona_", timestamp(now), ".txt">>

\* open(filename, "w").write(content): the file is created or truncated
save_to_file(fs, name, content, now) ==
    [f \in DOMAIN fs \cup {filename_of(name, now)} |->
        IF f = filename_of(name, now) THEN content ELSE fs[f]]

-----------------------------------------------------------------------------
(* The except clause, and generate_persona as one call *)

\* a faulty variant of error_report: the error is added to what was built
error_report_partial(p, message) == ("error" :> message) @@ p

\* except Exception as e: return {"error": str(e)}
error_report(p, message) == [error |-> message]

\* generate_persona(username) against a source that raises `raised` (<<>>: it
\* does not raise), console variant
generate_persona(name, src, raised) ==
    LET cs == Take(src.comments, FetchLimit)
        ps == Take(src.posts, FetchLimit)
    IN  IF raised # <<>> THEN error_report(<<>>, raised[1])
        ELSE IF no_public_activity(cs, ps) THEN no_activity
        ELSE persona_loop(persona_literal(name, src, cs, ps), cs)

-----------------------------------------------------------------------------
(* The console main loop: input().strip(), 'quit', and the /user/ URL form *)

RECURSIVE lstrip(_)
lstrip(s) == IF s # <<>> /\ IsSpace(Head(s)) THEN lstrip(Tail(s)) ELSE s

RECURSIVE rstrip(_)
rstrip(s) == IF s # <<>> /\ IsSpace(s[Len(s)]) THEN rstrip(SubSeq(s, 1, Len(s) - 1)) ELSE s

strip(s) == rstrip(lstrip(s))

\* str.rstrip("/")
RECURSIVE rstrip_slash(_)
rstrip_slash(s) ==
    IF s # <<>> /\ s[Len(s)] = "/" THEN rstrip_slash(SubSeq(s, 1, Len(s) - 1)) ELSE s

\* str.find(sep), counted from 0; the caller has checked `sep in s`
Find(s, sep) ==
    Min({i \in 0..(Len(s) - Len(sep)) : \A j \in 1..Len(sep) : s[i + j] = sep[j]})

\* s.split(sep)[1] when sep is in s: what lies between its first two occurrences
split_second(s, sep) ==
    LET rest == SubSeq(s, Find(s, sep) + Len(sep) + 1, Len(s))
    IN  IF Contains(rest, sep) THEN SubSeq(rest, 1, Find(rest, sep)) ELSE rest

user_sep == <<"/","u","s","e","r","/">>
quit_word == <<"q","u","i","t">>

is_quit(line) == lower(strip(line)) = quit_word

username_of(line) ==
    IF Contains(strip(line), user_sep)
    THEN rstrip_slash(split_second(strip(line), user_sep))
    ELSE strip(line)

-----------------------------------------------------------------------------
(* What the content source can hold, and what the user can type *)

Comment(body, subreddit, permalink, created_utc) ==
    [body |-> body, subreddit |-> subreddit, permalink |-> permalink,
     created_utc |-> created_utc]

Post(title, subreddit, permalink, created_utc) ==
    [title |-> title, subreddit |-> subreddit, permalink |-> permalink,
     created_utc |-> created_utc]

comment_python == Comment(<<"I"," ","t","h","i","n","k"," ","P","y","t","h","o","n"," ","i","s"," ","g","r","e","a","t",","," ","h","o","w","e","v","e","r"," ","i","t","'","s"," ","s","l","o","w">>, "test", "/r/test/comments/c1/", 7200)
comment_lol == Comment(<<"l","o","l"," ","t","h","a","t","'","s"," ","h","i","l","a","r","i","o","u","s">>, "other", "/r/other/comments/c2/", 3600)
comment_why == Comment(<<"W","h","y","?"," ","H","e","l","p","!">> \o <<" ", "U+1F602">>, "test", "/r/test/comments/c3/", 90000)
comment_ok == Comment(<<"o","k">>, "test", "/r/test/comments/c4/", 10)

CommentPool == {comment_python, comment_lol, comment_why, comment_ok}

post_game == Post(<<"N","e","w"," ","P","y","t","h","o","n"," ","g","a","m","e">>, "gaming", "/r/gaming/comments/p1/", 5000)
post_hello == Post(<<"h","e","l","l","o">>, "test", "/r/test/comments/p2/", 20)

PostPool == {post_game, post_hello}

Accounts ==
    {[created_utc |-> 86400, comment_karma |-> 10, link_karma |-> 0],
     [created_utc |-> 0, comment_karma |-> 0, link_karma |-> 5]}

Usernames == {"spez", "kn0thing"}

Variants == {"console", "dashboard"}

FailureMessages == {"received 404 HTTP response", "received 403 HTTP response"}

\* a listing names each item once
Sources ==
    {[comments |-> cs, posts |-> ps, created_utc |-> a.created_utc,
      comment_karma |-> a.comment_karma, link_karma |-> a.link_karma] :
        cs \in InjSeqUpTo(CommentPool, MaxComments),
        ps \in InjSeqUpTo(PostPool, MaxPosts),
        a \in Accounts}

-----------------------------------------------------------------------------
(* Values of the variables a specification does not use *)

RunIdle ==
    /\ variant = "console" /\ username = "" /\ source = <<>> /\ pc = "idle"
    /\ comments = <<>> /\ posts = <<>> /\ persona = <<>> /\ k = 0
    /\ result = <<>> /\ failure = <<>> /\ fetches = [comments |-> 0, posts |-> 0]
    /\ output = <<>>

TextIdle == text = <<>> /\ cleaned = <<>> /\ interests = <<>> /\ traits = <<>>

StyleIdle == texts = <<>> /\ style = <<>>

TallyIdle == subs = <<>> /\ tally = <<>> /\ top_subs = <<>>

SaveIdle == running = FALSE /\ clock = 0 /\ files = <<>> /\ saved = <<>>

-----------------------------------------------------------------------------
(* Spec: one run of generate_persona, statement by statement, then            *)
(* format_output in the console variant.                                      *)

Init ==
    /\ variant \in Variants
    /\ username \in Usernames
    /\ source \in Sources
    /\ pc = "redditor"
    /\ comments = <<>> /\ posts = <<>> /\ persona = <<>> /\ k = 0
    /\ result = <<>> /\ failure = <<>> /\ fetches = [comments |-> 0, posts |-> 0]
    /\ output = <<>>
    /\ TextIdle /\ StyleIdle /\ TallyIdle /\ SaveIdle

others == <<textVars, styleVars, tallyVars, saveVars>>

\* user = reddit.redditor(username)
Redditor ==
    /\ pc = "redditor"
    /\ pc' = "comments"
    /\ UNCHANGED <<variant, username, source, comments, posts, persona, k, result, failure, fetches,
                   output, others>>

\* comments = list(user.comments.new(limit=100))
ListComments ==
    /\ pc = "comments"
    /\ comments' = Take(source.comments, FetchLimit)
    /\ fetches' = [fetches EXCEPT !.comments = @ + 1]
    /\ pc' = "posts"
    /\ UNCHANGED <<variant, username, source, posts, persona, k, result, failure, output, others>>

\* posts = list(user.submissions.new(limit=100))
ListPosts ==
    /\ pc = "posts"
    /\ posts' = Take(source.posts, FetchLimit)
    /\ fetches' = [fetches EXCEPT !.posts = @ + 1]
    /\ pc' = "check"
    /\ UNCHANGED <<variant, username, source, comments, persona, k, result, failure, output, others>>

\* if not comments and not posts: return {"error": "No public activity found"}
ReturnNoActivity ==
    /\ pc = "check"
    /\ no_public_activity(comments, posts)
    /\ result' = no_activity
    /\ pc' = "returned"
    /\ UNCHANGED <<variant, username, source, comments, posts, persona, k, failure, fetches, output,
                   others>>

HasActivity ==
    /\ pc = "check"
    /\ ~no_public_activity(comments, posts)
    /\ pc' = "build"
    /\ UNCHANGED <<variant, username, source, comments, posts, persona, k, result, failure, fetches,
                   output, others>>

\* console: persona = {...}
BuildPersona ==
    /\ pc = "build" /\ variant = "console"
    /\ persona' = persona_literal(username, source, comments, posts)
    /\ k' = 0
    /\ pc' = "loop"
    /\ UNCHANGED <<variant, username, source, comments, posts, result, failure, fetches, output, others>>

\* console: one iteration of `for comment in comments:`
LoopStep ==
    /\ pc = "loop" /\ k < Len(comments)
    /\ persona' = persona_step(persona, comments[k + 1])
    /\ k' = k + 1
    /\ UNCHANGED <<variant, username, source, pc, comments, posts, result, failure, fetches, output,
                   others>>

\* console: return persona
ReturnPersona ==
    /\ pc = "loop" /\ k = Len(comments)
    /\ result' = persona
    /\ pc' = "returned"
    /\ UNCHANGED <<variant, username, source, comments, posts, persona, k, failure, fetches, output,
                   others>>

\* dashboard: return {...}
DashReturn ==
    /\ pc = "build" /\ variant = "dashboard"
    /\ result' = dash_persona(username, source, comments, posts)
    /\ pc' = "returned"
    /\ UNCHANGED <<variant, username, source, comments, posts, persona, k, failure, fetches, output,
                   others>>

\* the statements that read from the content source: the lookup, the two
\* listings, the account metadata read while the dict is built, and the lazy
\* attributes of the next comment in the loop
reads_source ==
    \/ pc \in {"redditor", "comments", "posts", "build"}
    \/ pc = "loop" /\ k < Len(comments)

\* the content source raises in the statement at pc; the except clause returns
SourceFails(message) ==
    /\ reads_source
    /\ failure' = <<message>>
    /\ fetches' = [fetches EXCEPT
                       !.comments = IF pc = "comments" THEN @ + 1 ELSE @,
                       !.posts = IF pc = "posts" THEN @ + 1 ELSE @]
    /\ result' = error_report(persona, message)
    /\ pc' = "returned"
    /\ UNCHANGED <<variant, username, source, comments, posts, persona, k, output, others>>

\* console main loop: output = generator.format_output(persona)
FormatOutput ==
    /\ pc = "returned" /\ variant = "console"
    /\ output' = format_output(result)
    /\ pc' = "formatted"
    /\ UNCHANGED <<variant, username, source, comments, posts, persona, k, result, failure, fetches,
                   others>>

Next ==
    \/ Redditor \/ ListComments \/ ListPosts \/ ReturnNoActivity \/ HasActivity
    \/ BuildPersona \/ LoopStep \/ ReturnPersona \/ DashReturn
    \/ \E message \in FailureMessages : SourceFails(message)
    \/ FormatOutput

Spec == Init /\ [][Next]_vars

-----------------------------------------------------------------------------
(* SpecNorm: the normalizer of either variant applied to one string *)

NormAlphabet == {"a", "Z", "7", "_", " ", ",", "U+1F602"}

normalize(v, s) == IF v = "console" THEN _clean_text(s) ELSE clean_text(s)

InitNorm ==
    /\ text \in SeqUpTo(NormAlphabet, MaxLen)
    /\ cleaned = <<>> /\ interests = <<>> /\ traits = <<>>
    /\ RunIdle /\ StyleIdle /\ TallyIdle /\ SaveIdle

\* cleaned[v] = <<the normalized text>> once variant v's normalizer has run
Normalize(v) ==
    /\ v \notin DOMAIN cleaned
    /\ cleaned' = (v :> normalize(v, text)) @@ cleaned
    /\ UNCHANGED <<text, interests, traits, runVars, styleVars, tallyVars, saveVars>>

NextNorm == \E v \in Variants : Normalize(v)

SpecNorm == InitNorm /\ [][NextNorm]_vars

-----------------------------------------------------------------------------
(* SpecClassify: detect_interests and detect_personality_traits applied to    *)
(* one text, a concatenation of fragments                                     *)

Fragments ==
    {<<"P","y","t","h","o","n",",">>, <<"g","a","m","e">>, <<"s","t","a","r"," ">>, <<"w","a","r","s">>, <<"I"," ","t","h","i","n","k">>, <<"L","O","L">>, <<"h","o","w">>,
     <<"x"," ">>, <<"i","n"," ","m","y","-">>, <<" ","o","p","i","n","i","o","n">>}

InitClassify ==
    /\ text \in {Flatten(fs) : fs \in SeqUpTo(Fragments, MaxFrags)}
    /\ cleaned = <<>> /\ interests = <<>> /\ traits = <<>>
    /\ RunIdle /\ StyleIdle /\ TallyIdle /\ SaveIdle

\* interests = <<the list returned>> once detect_interests has run
DetectInterests ==
    /\ interests = <<>>
    /\ interests' = <<detect_interests(text)>>
    /\ UNCHANGED <<text, cleaned, traits, runVars, styleVars, tallyVars, saveVars>>

DetectTraits ==
    /\ traits = <<>>
    /\ traits' = <<detect_personality_traits(text)>>
    /\ UNCHANGED <<text, cleaned, interests, runVars, styleVars, tallyVars, saveVars>>

NextClassify == DetectInterests \/ DetectTraits

SpecClassify == InitClassify /\ [][NextClassify]_vars

-----------------------------------------------------------------------------
(* SpecStyle: analyze_writing_style applied to one batch of texts *)

\* n words, each followed by a space
words(n) == [i \in 1..(2 * n) |-> IF i % 2 = 1 THEN "w" ELSE " "]

\* 80 words and an emoji; 70 words; 10 words and a connective; an emoji alone
text_long_emoji == words(79) \o <<"U+1F602">>
text_long == words(70)
text_formal == words(9) \o <<"H","o","w","e","v","e","r",",">>
text_emoji == <<"U+1F60A">>

StyleTexts == {text_long_emoji, text_long, text_formal, text_emoji}

InitStyle ==
    /\ texts \in SeqUpTo(StyleTexts, MaxBatch)
    /\ style = <<>>
    /\ RunIdle /\ TextIdle /\ TallyIdle /\ SaveIdle

\* style = <<the dict returned>> once analyze_writing_style has run
AnalyzeWritingStyle ==
    /\ style = <<>>
    /\ style' = <<analyze_writing_style(texts)>>
    /\ UNCHANGED <<texts, runVars, textVars, tallyVars, saveVars>>

NextStyle == AnalyzeWritingStyle

SpecStyle == InitStyle /\ [][NextStyle]_vars

-----------------------------------------------------------------------------
(* SpecTally: the tally of the loop of generate_persona over the communities  *)
(* of the fetched comments, then the top list of format_output                *)

Communities == {"test", "other", "aww", "pics", "news", "funny"}

InitTally ==
    /\ subs \in SeqUpTo(Communities, MaxTally)
    /\ tally = <<>> /\ top_subs = <<>>
    /\ RunIdle /\ TextIdle /\ StyleIdle /\ SaveIdle

\* tally = <<persona["Preferred Subreddits"]>> once the loop has run
CountSubreddits ==
    /\ tally = <<>>
    /\ tally' = <<tally_all(<<>>, subs)>>
    /\ UNCHANGED <<subs, top_subs, runVars, textVars, styleVars, saveVars>>

\* top_subs = <<the list format_output renders>>
RenderTopSubreddits ==
    /\ tally # <<>> /\ top_subs = <<>>
    /\ top_subs' = <<top_subreddits(tally[1])>>
    /\ UNCHANGED <<subs, tally, runVars, textVars, styleVars, saveVars>>

NextTally == CountSubreddits \/ RenderTopSubreddits

SpecTally == InitTally /\ [][NextTally]_vars

-----------------------------------------------------------------------------
(* SpecSave: the console main loop, one iteration per action, with the clock  *)

Lines == {<<"s","p","e","z">>, <<" ","r","e","d","d","i","t",".","c","o","m","/","u","s","e","r","/","s","p","e","z","/">>, <<"k","n","0","t","h","i","n","g">>, <<"Q","u","i","t">>}

SaveSources ==
    {[comments |-> <<>>, posts |-> <<>>, created_utc |-> 0,
      comment_karma |-> 0, link_karma |-> 0],
     [comments |-> <<comment_python, comment_lol>>, posts |-> <<>>, created_utc |-> 86400,
      comment_karma |-> 10, link_karma |-> 0]}

SaveFailures == {<<>>, <<"received 404 HTTP response">>}

InitSave ==
    /\ running = TRUE /\ clock = 0 /\ files = <<>> /\ saved = <<>>
    /\ RunIdle /\ TextIdle /\ StyleIdle /\ TallyIdle

Tick ==
    /\ clock < MaxClock
    /\ clock' = clock + 1
    /\ UNCHANGED <<running, files, saved, runVars, textVars, styleVars, tallyVars>>

\* if username.lower() == 'quit': break
Quit(line) ==
    /\ running /\ is_quit(line)
    /\ running' = FALSE
    /\ UNCHANGED <<clock, files, saved, runVars, textVars, styleVars, tallyVars>>

\* one iteration: generate_persona, format_output, save_to_file; an exception
\* of format_output is caught by the loop and nothing is saved.  Two iterations
\* never read the clock at the same instant.
Analyze(line, src, raised) ==
    /\ running /\ ~is_quit(line) /\ Len(saved) < MaxRuns
    /\ saved # <<>> => saved[Len(saved)].at < clock
    /\ LET name == username_of(line)
           content == format_output(generate_persona(name, src, raised))
       IN  IF "raised" \in DOMAIN content
           THEN UNCHANGED <<files, saved>>
           ELSE /\ files' = save_to_file(files, name, content, clock)
                /\ saved' = Append(saved, [username |-> name,
                                           filename |-> filename_of(name, clock),
                                           at |-> clock,
                                           existed |-> filename_of(name, clock) \in DOMAIN files])
    /\ UNCHANGED <<running, clock, runVars, textVars, styleVars, tallyVars>>

NextSave ==
    \/ Tick
    \/ \E line \in Lines : Quit(line)
    \/ \E line \in Lines, src \in SaveSources, raised \in SaveFailures : Analyze(line, src, raised)

SpecSave == InitSave /\ [][NextSave]_vars

-----------------------------------------------------------------------------
(* Properties *)

returned == pc \in {"returned", "formatted"}

is_report == returned /\ "error" \notin DOMAIN result

\* the stepwise run returns what the call as a whole returns
RunAgreesWithCall ==
    (returned /\ variant = "console") => result = generate_persona(username, source, failure)

\* C1: when the content source returns no comment and no submission,
\* generate_persona returns exactly {error: "No public activity found"} and no
\* other field, whatever the username and the account metadata, in both variants.
C1_NoActivityIsErrorSentinel ==
    (returned /\ failure = <<>> /\ source.comments = <<>> /\ source.posts = <<>>)
        => /\ DOMAIN result = {"error"}
           /\ result["error"] = "No public activity found"

C1_Witness ==
    /\ pc = "returned" /\ variant = "dashboard" /\ failure = <<>>
    /\ source.comments = <<>> /\ source.posts = <<>>
    /\ source.comment_karma > 0
    /\ DOMAIN result = {"error"}

\* C2: when the content source fails at any statement of a run, the run returns
\* only {error: <the failure's message>}: nothing accumulated before the failure
\* is in the result, no listing is fetched a second time, and the run returns
\* (the failure does not leave generate_persona).
C2_FailureIsOnlyTheErrorSentinel ==
    /\ failure # <<>> =>
           /\ returned
           /\ DOMAIN result = {"error"}
           /\ result["error"] = failure[1]
    /\ fetches.comments <= 1 /\ fetches.posts <= 1

\* a failure in the loop, after a comment has been tallied
C2_Witness ==
    /\ pc = "returned" /\ failure # <<>> /\ variant = "console"
    /\ k >= 1 /\ k < Len(comments)
    /\ persona["Preferred Subreddits"] # <<>>
    /\ DOMAIN result = {"error"}

\* the fetched items, each with the text the classifiers would see
fetched_items ==
    {[permalink |-> comments[i].permalink, text |-> comments[i].body] : i \in DOMAIN comments}
    \cup {[permalink |-> posts[i].permalink, text |-> posts[i].title] : i \in DOMAIN posts}

\* every permalink cited for a label is the permalink of a fetched item, and of
\* no fetched item whose text the classifier does not give the label
OnlyMatching(d, classifier(_)) ==
    \A e \in Range(d) : \A url \in Range(e.value) :
        /\ \E item \in fetched_items : item.permalink = url
        /\ \A item \in fetched_items :
               item.permalink = url => e.key \in Range(classifier(item.text))

\* C3: in every report of the console variant that is not an error, the citation
\* list of every interest label and every trait label holds only permalinks of
\* fetched items whose text matched that label under its classifier.
C3_CitationsOnlyOfMatchingItems ==
    (is_report /\ variant = "console") =>
        /\ OnlyMatching(result["Interests & Hobbies"], detect_interests)
        /\ OnlyMatching(result["Personality Traits"], detect_personality_traits)

\* a report that cites a label while a fetched comment matches nothing
C3_Witness ==
    /\ is_report /\ variant = "console"
    /\ result["Interests & Hobbies"] # <<>>
    /\ result["Personality Traits"] # <<>>
    /\ \E i \in DOMAIN comments :
           detect_interests(comments[i].body) = <<>>
           /\ detect_personality_traits(comments[i].body) = <<>>

\* C4: for a batch that is not empty the description follows the ordered rules,
\* first match wins: average word count > 75, else > 40, else emoji usage > 3,
\* else formality score > 5, else the default; a value equal to a threshold does
\* not trigger its rule.
C4_DescriptionByOrderedRules ==
    (style # <<>> /\ texts # <<>>) =>
        LET s == style[1]
            avg == s["Average Word Count"]
        IN  s["Description"] =
                IF avg.num > 75 * avg.den THEN "Detailed and analytical"
                ELSE IF avg.num > 40 * avg.den THEN "Balanced and thoughtful"
                ELSE IF s["Emoji Usage"] > 3 THEN "Casual and expressive"
                ELSE IF s["Formality Score"] > 5 THEN "Formal and structured"
                ELSE "Straightforward and concise"

\* average word count 80 and emoji usage 5: "Detailed and analytical"
C4_Witness ==
    /\ style # <<>> /\ texts # <<>>
    /\ style[1]["Average Word Count"].num = 80 * style[1]["Average Word Count"].den
    /\ style[1]["Emoji Usage"] = 5
    /\ style[1]["Description"] = "Detailed and analytical"

\* the list has label L iff a keyword of L is in the normalized text, has no
\* label outside the table and none twice
ExactlyTheMatching(returned_list, table, label(_)) ==
    /\ \A i \in DOMAIN table :
           label(table[i]) \in Range(returned_list)
               <=> \E kw \in Range(table[i].keywords) : Contains(_clean_text(text), kw)
    /\ Range(returned_list) \subseteq {label(table[i]) : i \in DOMAIN table}
    /\ \A i, j \in DOMAIN returned_list : i # j => returned_list[i] # returned_list[j]

\* C5: detect_interests and detect_personality_traits return a label iff a
\* keyword configured for it is a substring of the normalized text; no keyword
\* gives the empty result, keywords of two categories give both labels, and no
\* label is returned twice.
C5_LabelIffKeywordInNormalizedText ==
    /\ interests # <<>> =>
           ExactlyTheMatching(interests[1], interest_keywords, LAMBDA e : e.category)
    /\ traits # <<>> =>
           ExactlyTheMatching(traits[1], trait_keywords, LAMBDA e : e.trait)

\* "Python,game": keywords of two categories, in capitals and before punctuation
C5_Witness ==
    /\ interests # <<>> /\ traits # <<>>
    /\ Range(interests[1]) = {"Technology", "Gaming"}
    /\ traits[1] = <<>>
    /\ \E i \in DOMAIN text : IsUpper(text[i])

\* scenario B: the two comments and no post, console variant, no failure
scenario_B ==
    /\ is_report /\ variant = "console"
    /\ Len(comments) = 2 /\ posts = <<>>
    /\ {comments[i].body : i \in DOMAIN comments} = {comment_python.body, comment_lol.body}

\* C6, as stated: interests {Technology}, traits {Opinionated, Humorous}, average
\* word count (8+4)/2 = 6.0, description "Straightforward and concise".
C6_ScenarioB_AsStated ==
    scenario_B =>
        /\ Keys(result["Interests & Hobbies"]) = {"Technology"}
        /\ Keys(result["Personality Traits"]) = {"Opinionated", "Humorous"}
        /\ result["Writing Style"]["Average Word Count"].num
               = 6 * result["Writing Style"]["Average Word Count"].den
        /\ result["Writing Style"]["Description"] = "Straightforward and concise"

\* C6, amended: interests {Technology}, traits {Opinionated, Curious, Humorous}
\* ("how" is a substring of "however"), average word count (8+3)/2 = 5.5 ("lol
\* that's hilarious" has three tokens), description "Straightforward and concise".
C6_ScenarioB_Amended ==
    scenario_B =>
        /\ Keys(result["Interests & Hobbies"]) = {"Technology"}
        /\ Keys(result["Personality Traits"]) = {"Opinionated", "Curious", "Humorous"}
        /\ 2 * result["Writing Style"]["Average Word Count"].num
               = 11 * result["Writing Style"]["Average Word Count"].den
        /\ result["Writing Style"]["Description"] = "Straightforward and concise"

C6_Witness == scenario_B /\ pc = "formatted" /\ "Curious" \in Keys(result["Personality Traits"])

\* C7: the normalizer's output has only alphanumeric and whitespace characters
\* and no uppercase letter, normalizing it again changes nothing, and the empty
\* string maps to the empty string.
C7_NormalizerOutputHasNoPunctuation ==
    \A v \in DOMAIN cleaned :
        /\ \A i \in DOMAIN cleaned[v] : IsAlnum(cleaned[v][i]) \/ IsSpace(cleaned[v][i])
        /\ \A i \in DOMAIN cleaned[v] : ~IsUpper(cleaned[v][i])
        /\ normalize(v, cleaned[v]) = cleaned[v]
        /\ text = <<>> => cleaned[v] = <<>>

\* C8: two calls of save_to_file for the same username give two distinct
\* filenames, so no report file of an earlier run is overwritten.
C8_SavesNeverShareAFilename ==
    /\ \A i, j \in DOMAIN saved :
           (i < j /\ saved[i].username = saved[j].username)
               => saved[i].filename # saved[j].filename
    /\ \A i \in DOMAIN saved : ~saved[i].existed

min_of(a, b) == IF a < b THEN a ELSE b

\* C9: the tally maps each community to the number of fetched comments from it;
\* the top list is the (at most 5) communities with the largest counts, in
\* non-increasing order; 3 comments in "test" and 1 in "other" give
\* [("test", 3), ("other", 1)].
C9_TallyAndTopCommunities ==
    /\ tally # <<>> =>
           LET d == tally[1]
           IN  /\ Keys(d) = Range(subs)
               /\ \A i, j \in DOMAIN d : i # j => d[i].key # d[j].key
               /\ \A i \in DOMAIN d :
                      d[i].value = Cardinality({n \in DOMAIN subs : subs[n] = d[i].key})
    /\ top_subs # <<>> =>
           LET d == tally[1]
               t == top_subs[1]
           IN  /\ Len(t) = min_of(5, Len(d))
               /\ Range(t) \subseteq Range(d)
               /\ \A i, j \in DOMAIN t : i < j => t[i].key # t[j].key /\ t[i].value >= t[j].value
               /\ \A e \in Range(d) \ Range(t) : \A x \in Range(t) : x.value >= e.value
               /\ (/\ Len(subs) = 4
                   /\ Cardinality({n \in DOMAIN subs : subs[n] = "test"}) = 3
                   /\ Cardinality({n \in DOMAIN subs : subs[n] = "other"}) = 1)
                      => t = <<[key |-> "test", value |-> 3], [key |-> "other", value |-> 1]>>

\* six communities tallied, five listed
C9_Witness ==
    /\ tally # <<>> /\ top_subs # <<>>
    /\ Len(tally[1]) = 6
    /\ Len(top_subs[1]) = 5

\* C10: in the console variant the Writing Style of a report that is not an error
\* is never the "No text available" sentinel, and it has every field that
\* format_output reads, for comments only, posts only, or both.
C10_ReportStyleIsNeverTheSentinel ==
    (is_report /\ variant = "console") =>
        /\ result["Writing Style"]["Description"] # "No text available"
        /\ {"Description", "Average Word Count", "Emoji Usage", "Question Frequency",
            "Exclamation Frequency"} \subseteq DOMAIN result["Writing Style"]
        /\ pc = "formatted" => "raised" \notin DOMAIN output

\* posts only
C10_Witness ==
    /\ is_report /\ variant = "console" /\ pc = "formatted"
    /\ comments = <<>> /\ posts # <<>>
    /\ "writing_style" \in DOMAIN output

====
